---- MODULE Spec2Model ----
(***************************************************************************)
(* Verification model of the Agentic Financial Analyst control loop:      *)
(* the plan contract (afa/schemas.py), the router (afa/nodes/router.py,   *)
(* in its two variants), the tools node (afa/nodes/tools_node.py), the    *)
(* finalizer (afa/nodes/finalizer.py) and the graph wiring (afa/graph.py).*)
(*                                                                         *)
(* JSON values are modelled as tagged records, because a planner reply    *)
(* may carry any JSON type where the contract expects a string, a list    *)
(* or a map.  A missing dictionary key is the value Absent.               *)
(***************************************************************************)
EXTENDS Integers, Sequences, FiniteSets, TLC

VARIABLES
    mode,             \* which entry point is exercised: "graph", "tools", "plan"
    pc,               \* position of the run in the graph / in the function under test
    routerImpl,       \* which router_node is installed: "llm" or "basic"
    keepsUndeclared,  \* does the graph library keep update keys the state schema lacks
    parsed,           \* state["parsed"]
    iterations,       \* state["iterations"]
    plan,             \* state["__plan__"], NoPlan when the key is missing
    dataframes,       \* state["dataframes"]: ticker -> series
    metrics,          \* state["metrics"]: ticker -> digest
    final_answer,     \* state["final_answer"]
    routerPlan,       \* the plan returned by the latest router_node call
    plannerCalls,     \* history: number of planner invocations so far
    toolBatches,      \* history: number of tools_node executions started so far
    dfs,              \* tools_node local copy of the series map
    mtr,              \* tools_node local copy of the metrics map
    calls,            \* tools_node local: the tool_calls list being executed
    callIdx,          \* tools_node local: number of tool calls already executed
    exc,              \* the exception that escaped the running node, "None" if none
    route,            \* the latest answer of _route_decider, "None" before the first
    node,             \* history: the node that ran last, "none" before the first
    lastReply,        \* history: the planner reply the latest router call received
    fin,              \* input of the function under test
    fout,             \* its result
    finalReply        \* history: the text the finalizer's language model returned

vars == <<mode, pc, routerImpl, keepsUndeclared, parsed, iterations, plan, dataframes,
          metrics, final_answer, routerPlan, plannerCalls, toolBatches, dfs, mtr,
          calls, callIdx, exc, route, node, lastReply,
          fin, fout, finalReply>>

----------------------------------------------------------------------------
(* Bounds of the model *)

\* longest tool_calls list drawn when the plan contract is checked on its own
MaxPlanLen == 2
\* longest tool_calls list drawn when tools_node is checked on its own
MaxCalls == 2
\* longest finalizer reply, in characters
MaxText == 3
\* longest text given to resolve_timeframe, in expressions
MaxExprs == 2
\* longest text given to extract_tickers, in tokens
MaxTokens == 3
\* longest indicator series given to the two classifiers, in rows
MaxRows == 3

----------------------------------------------------------------------------
(* Vocabulary *)

Absent == "ABSENT"            \* the key is not in the dictionary
None == "None"                \* Python None / JSON null
NonStr == "#7"                \* a hashable JSON value that is not a string (a number)
Unhash == "#[]"               \* an unhashable JSON value (a list or an object)

TickerSyms == {"AAPL", "MSFT"}
LowerSyms == {"aapl"}
TickerElems == TickerSyms \cup LowerSyms \cup {NonStr, Unhash}

ToolNames == {"fetch_prices", "compute_indicators", "summarize_metrics"}
Intervals == {"1d", "1wk", "1mo"}
ALLOWED_INDICATORS == {"sma20", "sma50", "ema20", "rsi14", "macd", "bbands"}
MAX_TICKERS_PER_CALL == 5

\* A list-typed argument: missing, present but not a list, or a list.
NoVal == [t |-> "absent", v |-> <<>>]
NotList == [t |-> "notlist", v |-> <<>>]
L(s) == [t |-> "list", v |-> s]

\* One entry of tool_calls.  kind = "notdict" is an entry that is no map.
ToolCall(name, args, tickers, interval, indicators, start) ==
    [kind |-> "dict", name |-> name, args |-> args, tickers |-> tickers,
     interval |-> interval, indicators |-> indicators, start |-> start]

NotADict == [kind |-> "notdict", name |-> Absent, args |-> Absent, tickers |-> NoVal,
             interval |-> Absent, indicators |-> NoVal, start |-> Absent]

\* A JSON value offered as a plan.  t is its JSON type; "list_k" and "str_k" are a
\* list holding, and a string containing, the text next_action.
PlanObj(t, na, tc) == [t |-> t, next_action |-> na, tool_calls |-> tc]

RouterPlan(na, tc) == PlanObj("dict", na, tc)

NoPlan == PlanObj("missing", Absent, NoVal)

----------------------------------------------------------------------------
(* afa/schemas.py: the plan contract *)

Accept == [ok |-> TRUE, error |-> None, at |-> 0, exc |-> None]
Reject(msg) == [ok |-> FALSE, error |-> msg, at |-> 0, exc |-> None]
Raise(e) == [ok |-> FALSE, error |-> None, at |-> 0, exc |-> e]

AllStr(s) == \A i \in 1..Len(s) : s[i] \in TickerSyms \cup LowerSyms
Elems(s) == {s[i] : i \in 1..Len(s)}

\* set(args["indicators"]) - ALLOWED_INDICATORS
UnknownIndicatorsFiltered(indicators) == {}

UnknownIndicators(indicators) == Elems(indicators) \ ALLOWED_INDICATORS

validate_tool_call(obj) ==
    IF obj.name = Absent THEN Reject("Missing required field 'name'")
    ELSE IF obj.args = Absent THEN Reject("Missing required field 'args'")
    ELSE IF obj.name = Unhash THEN Raise("TypeError")
    ELSE IF obj.name \notin ToolNames THEN Reject("Unknown tool name")
    ELSE IF obj.args # "dict" THEN Reject("Tool args must be dict")
    ELSE IF obj.name = "fetch_prices" THEN
        IF obj.tickers.t = "notlist" THEN Reject("fetch_prices.tickers must be list")
        ELSE IF obj.tickers.t = "list" /\ Len(obj.tickers.v) > MAX_TICKERS_PER_CALL
            THEN Reject("fetch_prices.tickers exceeds")
        ELSE IF obj.tickers.t = "list" /\ ~AllStr(obj.tickers.v)
            THEN Reject("fetch_prices.tickers must contain only strings")
        ELSE IF obj.interval = Unhash THEN Raise("TypeError")
        ELSE IF obj.interval # Absent /\ obj.interval \notin Intervals
            THEN Reject("fetch_prices.interval must be 1d/1wk/1mo")
        ELSE IF obj.start \notin {Absent, None, "str"}
            THEN Reject("fetch_prices.start must be string or null")
        ELSE Accept
    ELSE IF obj.name = "compute_indicators" THEN
        IF obj.indicators.t = "notlist"
            THEN Reject("compute_indicators.indicators must be list")
        ELSE IF obj.indicators.t = "list" /\ Unhash \in Elems(obj.indicators.v)
            THEN Raise("TypeError")
        ELSE IF obj.indicators.t = "list" /\ UnknownIndicators(obj.indicators.v) # {}
            THEN Reject("Unknown indicators")
        ELSE IF obj.tickers.t = "notlist"
            THEN Reject("compute_indicators.tickers must be list")
        ELSE Accept
    ELSE
        IF obj.tickers.t = "notlist" THEN Reject("summarize_metrics.tickers must be list")
        ELSE IF obj.interval = Unhash THEN Raise("TypeError")
        ELSE IF obj.interval # Absent /\ obj.interval \notin Intervals
            THEN Reject("summarize_metrics.interval must be 1d/1wk/1mo")
        ELSE Accept

\* the loop over enumerate(obj["tool_calls"]), from entry i on
RECURSIVE validate_calls(_, _)
validate_calls(tc, i) ==
    IF i > Len(tc) THEN Accept
    ELSE IF tc[i].kind # "dict" THEN [Reject("tool_calls[i] must be dict") EXCEPT !.at = i]
    ELSE LET r == validate_tool_call(tc[i])
         IN  IF r.ok THEN validate_calls(tc, i + 1) ELSE [r EXCEPT !.at = i]

\* bool(obj["tool_calls"]): a list is truthy when non-empty; "num" stands for the
\* truthy non-lists, "falsy" for the falsy ones (0, false, "", {}, null)
Truthy(tc) == (tc.t = "list" /\ Len(tc.v) > 0) \/ tc.t = "num"

validate_plan(obj) ==
    IF obj.t \in {"int", "null"} THEN Raise("TypeError")
    ELSE IF obj.t \in {"list", "str"} THEN Reject("Missing required field 'next_action'")
    ELSE IF obj.t \in {"list_k", "str_k"} THEN Raise("TypeError")
    ELSE IF obj.next_action = Absent THEN Reject("Missing required field 'next_action'")
    ELSE IF obj.next_action = Unhash THEN Raise("TypeError")
    ELSE IF obj.next_action \notin {"CALL_TOOLS", "FINALIZE"}
        THEN Reject("next_action must be CALL_TOOLS or FINALIZE")
    ELSE IF obj.next_action = "CALL_TOOLS" THEN
        IF obj.tool_calls.t = "absent"
            THEN Reject("tool_calls required when next_action is CALL_TOOLS")
        ELSE IF obj.tool_calls.t # "list" THEN Reject("tool_calls must be list")
        ELSE IF Len(obj.tool_calls.v) = 0
            THEN Reject("tool_calls cannot be empty when next_action is CALL_TOOLS")
        ELSE validate_calls(obj.tool_calls.v, 1)
    ELSE
        IF obj.tool_calls.t # "absent" /\ Truthy(obj.tool_calls)
            THEN Reject("tool_calls should be empty or absent when next_action is FINALIZE")
        ELSE Accept

\* coerce_plan: the plan, or the exception it raises
coerce_plan_dropping(obj) ==
    LET r == validate_plan(obj)
    IN  IF r.exc # None THEN [exc |-> r.exc, plan |-> NoPlan]
        ELSE IF ~r.ok THEN [exc |-> "ValueError", plan |-> NoPlan]
        ELSE [exc |-> None, plan |-> RouterPlan(obj.next_action, NoVal)]

coerce_plan(obj) ==
    LET r == validate_plan(obj)
    IN  IF r.exc # None THEN [exc |-> r.exc, plan |-> NoPlan]
        ELSE IF ~r.ok THEN [exc |-> "ValueError", plan |-> NoPlan]
        ELSE [exc |-> None, plan |-> RouterPlan(obj.next_action, obj.tool_calls)]

----------------------------------------------------------------------------
(* Price series, digests and the per-ticker maps *)

\* A series is described by what the tools branch on: its number of rows, the
\* number of rows with a non-missing close, whether it has a Close column, and
\* the indicator columns appended to it.
Series(rows, valid, close, cols) ==
    [rows |-> rows, valid |-> valid, close |-> close, cols |-> cols]

EmptyFrame == Series(0, 0, TRUE, {})

Put(m, k, v) == [t \in DOMAIN m \cup {k} |-> IF t = k THEN v ELSE m[t]]

EmptyMap == [t \in {} |-> EmptyFrame]

----------------------------------------------------------------------------
(* afa/tools/indicators.py *)

SUPPORTED_INDICATORS == {"sma20", "sma50", "ema20", "rsi14", "macd", "bbands"}

IndicatorColumns(ind) ==
    CASE ind = "macd" -> {"macd", "macd_signal", "macd_hist"}
      [] ind = "bbands" -> {"bb_mid", "bb_high", "bb_low"}
      [] OTHER -> {ind}

\* The outcome of a call: the exception raised (None = returned), the series
\* returned (the given one when nothing is returned), and the caller's series as
\* the call leaves it.
Computed(e, result, arg) == [exc |-> e, df |-> result, arg |-> arg]

WithColumns(df, wanted) ==
    [df EXCEPT !.cols = df.cols \cup UNION {IndicatorColumns(i) : i \in wanted}]

\* a variant that writes the columns into the given series, name by name, and
\* meets an unsupported name only inside the loop
compute_indicators_pandas_inplace(df, indicators, dataError) ==
    IF ~df.close THEN Computed("ValueError", df, df)
    ELSE IF indicators.t = "notlist" THEN Computed("TypeError", df, df)
    ELSE IF indicators.t = "list" /\ Unhash \in Elems(indicators.v)
        THEN Computed("TypeError", df, df)
    ELSE LET wanted == IF indicators.t = "absent" THEN SUPPORTED_INDICATORS
                       ELSE Elems(indicators.v)
             added == WithColumns(df, wanted \cap SUPPORTED_INDICATORS)
         IN  IF wanted \ SUPPORTED_INDICATORS # {} THEN Computed("ValueError", df, added)
             ELSE IF dataError THEN Computed("Exception", df, df)
             ELSE Computed(None, added, added)

\* indicators is the list-typed argument as tools_node passes it on (absent = None).
\* dataError: the arithmetic on this series' data fails.
compute_indicators_pandas(df, indicators, dataError) ==
    IF ~df.close THEN Computed("ValueError", df, df)
    ELSE IF indicators.t = "notlist" THEN Computed("TypeError", df, df)
    ELSE IF indicators.t = "list" /\ Unhash \in Elems(indicators.v)
        THEN Computed("TypeError", df, df)
    ELSE LET wanted == IF indicators.t = "absent" THEN SUPPORTED_INDICATORS
                       ELSE Elems(indicators.v)
         IN  IF wanted \ SUPPORTED_INDICATORS # {} THEN Computed("ValueError", df, df)
             ELSE IF dataError THEN Computed("Exception", df, df)
             ELSE Computed(None, WithColumns(df, wanted), df)

----------------------------------------------------------------------------
(* afa/tools/metrics.py *)

Digest(period, note, numeric, vol) ==
    [period |-> period, note |-> note, numeric |-> numeric, annualized_vol |-> vol]

\* a variant that counts rows only, not the non-missing closes
summarize_metrics_rows_only(df, interval) ==
    IF df.rows = 0 THEN Digest("null", "no data", FALSE, Absent)
    ELSE IF ~df.close THEN Digest("dates", "missing Close column", FALSE, Absent)
    ELSE IF df.rows < 2 THEN Digest("dates", "insufficient data", FALSE, Absent)
    ELSE Digest("dates", Absent, TRUE, IF interval = "1d" THEN "float" ELSE None)

summarize_metrics(df, interval) ==
    IF df.rows = 0 THEN Digest("null", "no data", FALSE, Absent)
    ELSE IF ~df.close THEN Digest("dates", "missing Close column", FALSE, Absent)
    ELSE IF df.rows < 2 THEN Digest("dates", "insufficient data", FALSE, Absent)
    ELSE IF df.valid < 2 THEN Digest("dates", "insufficient data", FALSE, Absent)
    ELSE Digest("dates", Absent, TRUE, IF interval = "1d" THEN "float" ELSE None)

----------------------------------------------------------------------------
(* afa/tools/prices.py *)

Upper(e) == IF e = "aapl" THEN "AAPL" ELSE e

\* list(dict.fromkeys(s)): first occurrences, in order
RECURSIVE Dedup(_)
Dedup(s) ==
    IF Len(s) = 0 THEN <<>>
    ELSE LET front == Dedup(SubSeq(s, 1, Len(s) - 1))
         IN  IF s[Len(s)] \in Elems(front) THEN front ELSE Append(front, s[Len(s)])

Take(s, n) == SubSeq(s, 1, IF Len(s) < n THEN Len(s) ELSE n)

\* What the download yields for one call: an error past the download's own handler,
\* or a series per symbol; a failed download is the all-empty answer.
FetchedSeries == {EmptyFrame, Series(1, 1, TRUE, {}), Series(2, 2, TRUE, {})}
FetchOutcomes ==
    {[raises |-> TRUE, data |-> [t \in TickerSyms |-> EmptyFrame]]}
        \cup {[raises |-> FALSE, data |-> f] : f \in [TickerSyms -> FetchedSeries]}

\* fetch_prices: the exception raised, or the ticker -> series map returned
fetch_prices(tickers, outcome) ==
    IF tickers.t = "notlist" THEN [exc |-> "TypeError", data |-> EmptyMap]
    ELSE IF ~AllStr(tickers.v) THEN [exc |-> "AttributeError", data |-> EmptyMap]
    ELSE LET normalized == Take(Dedup([i \in 1..Len(tickers.v) |-> Upper(tickers.v[i])]),
                                MAX_TICKERS_PER_CALL)
         IN  IF Len(normalized) = 0 THEN [exc |-> None, data |-> EmptyMap]
             ELSE IF outcome.raises THEN [exc |-> "Exception", data |-> EmptyMap]
             ELSE [exc |-> None, data |-> [t \in Elems(normalized) |-> outcome.data[t]]]

----------------------------------------------------------------------------
(* afa/nodes/tools_node.py *)

\* Each handler returns the exception that escapes it and the maps as it leaves them.
Handled(d, m) == [exc |-> None, dfs |-> d, metrics |-> m]
Escaped(e, d, m) == [exc |-> e, dfs |-> d, metrics |-> m]

_handle_fetch_prices_replacing(d, m, call, outcome) ==
    IF call.tickers.t = "absent" \/ (call.tickers.t = "list" /\ Len(call.tickers.v) = 0)
        THEN Handled(d, m)
    ELSE LET r == fetch_prices(call.tickers, outcome)
         IN  IF r.exc # None THEN Handled(d, m) ELSE Handled(r.data, m)

\* a variant that stores whatever the fetch returned for each ticker
_handle_fetch_prices_overwriting(d, m, call, outcome) ==
    IF call.tickers.t = "absent" \/ (call.tickers.t = "list" /\ Len(call.tickers.v) = 0)
        THEN Handled(d, m)
    ELSE LET r == fetch_prices(call.tickers, outcome)
         IN  IF r.exc # None THEN Handled(d, m)
             ELSE Handled([t \in DOMAIN d \cup DOMAIN r.data |->
                              IF t \in DOMAIN r.data THEN r.data[t] ELSE d[t]], m)

_handle_fetch_prices(d, m, call, outcome) ==
    IF call.tickers.t = "absent" \/ (call.tickers.t = "list" /\ Len(call.tickers.v) = 0)
        THEN Handled(d, m)
    ELSE LET r == fetch_prices(call.tickers, outcome)
         IN  IF r.exc # None THEN Handled(d, m)
             ELSE Handled([t \in DOMAIN d \cup DOMAIN r.data |->
                              IF t \in DOMAIN r.data /\ r.data[t].rows > 0 THEN r.data[t]
                              ELSE IF t \in DOMAIN d THEN d[t]
                              ELSE r.data[t]], m)

\* target_tickers of the two per-ticker handlers: the keys of dfs when the argument
\* is missing, else the listed entries; iterating a non-list or looking up an
\* unhashable entry raises outside every try block.
TargetError(call) ==
    call.tickers.t = "notlist" \/ (call.tickers.t = "list" /\ Unhash \in Elems(call.tickers.v))

Targets(d, call) ==
    IF call.tickers.t = "absent" THEN DOMAIN d ELSE Elems(call.tickers.v) \cap DOMAIN d

_handle_compute_indicators(d, m, call, bad) ==
    IF TargetError(call) THEN Escaped("TypeError", d, m)
    ELSE Handled([t \in DOMAIN d |->
                    IF t \in Targets(d, call) /\ d[t].rows > 0
                    THEN compute_indicators_pandas(d[t], call.indicators, t \in bad).df
                    ELSE d[t]], m)

\* a variant that summarises every target it finds in the map, empty or not
_handle_summarize_metrics_any(d, m, call, parsedInterval, bad) ==
    IF TargetError(call) THEN Escaped("TypeError", d, m)
    ELSE LET interval == IF call.interval \in {Absent, None} THEN parsedInterval
                         ELSE call.interval
             done == {t \in Targets(d, call) : t \notin bad}
         IN  Handled(d, [t \in DOMAIN m \cup done |->
                            IF t \in done THEN summarize_metrics(d[t], interval)
                            ELSE m[t]])

_handle_summarize_metrics(d, m, call, parsedInterval, bad) ==
    IF TargetError(call) THEN Escaped("TypeError", d, m)
    ELSE LET interval == IF call.interval \in {Absent, None} THEN parsedInterval
                         ELSE call.interval
             done == {t \in Targets(d, call) : d[t].rows > 0 /\ t \notin bad}
         IN  Handled(d, [t \in DOMAIN m \cup done |->
                            IF t \in done THEN summarize_metrics(d[t], interval)
                            ELSE m[t]])

\* one iteration of the loop over tool_calls
tool_call_step(d, m, call, parsedInterval, outcome, bad) ==
    IF call.kind # "dict" THEN Escaped("AttributeError", d, m)
    ELSE IF call.args \notin {"dict", Absent} THEN Escaped("AttributeError", d, m)
    ELSE IF call.name = "fetch_prices" THEN _handle_fetch_prices(d, m, call, outcome)
    ELSE IF call.name = "compute_indicators" THEN _handle_compute_indicators(d, m, call, bad)
    ELSE IF call.name = "summarize_metrics"
        THEN _handle_summarize_metrics(d, m, call, parsedInterval, bad)
    ELSE Handled(d, m)

----------------------------------------------------------------------------
(* afa/state.py *)

\* the keys ConversationState declares
ConversationState ==
    {"question", "parsed", "dataframes", "metrics", "messages", "final_answer",
     "iterations"}

Parsed(tickers, interval) == [tickers |-> tickers, interval |-> interval, start |-> "str"]

NoAnswer == [isNone |-> TRUE, text |-> <<>>]
Answer(text) == [isNone |-> FALSE, text |-> text]

----------------------------------------------------------------------------
(* agentic-fin-analyst/src/afa/nodes/router.py: the planner-backed router *)

\* A planner reply: how the JSON text sits in the reply, and the JSON value it holds.
\*   bare: the reply is the JSON text; fenced: a code fence holds it; fenced_bad: a
\*   code fence holds something else; prose: text surrounds it; garbage: no JSON.
Reply(wrap, body) == [wrap |-> wrap, body |-> body]

_parse_json_with_fallback(content) ==
    IF content.wrap = "bare" THEN [exc |-> None, obj |-> content.body]
    ELSE IF content.wrap = "fenced" THEN [exc |-> None, obj |-> content.body]
    ELSE IF content.wrap = "fenced_bad" THEN [exc |-> "JSONDecodeError", obj |-> NoPlan]
    ELSE IF content.wrap = "prose" /\ content.body.t = "dict"
        THEN [exc |-> None, obj |-> content.body]
    ELSE [exc |-> "JSONDecodeError", obj |-> NoPlan]

DefaultTicker == <<"AAPL">>

\* the start field of a call stands for the start/end pair of dates
_create_fallback_plan_metrics_only(p, m) ==
    IF DOMAIN m = {}
    THEN RouterPlan("CALL_TOOLS", L(<<
            ToolCall("fetch_prices", "dict",
                     L(IF Len(p.tickers) > 0 THEN p.tickers ELSE DefaultTicker),
                     p.interval, NoVal, p.start),
            ToolCall("compute_indicators", "dict", NoVal, Absent,
                     L(<<"sma20", "rsi14", "macd">>), Absent),
            ToolCall("summarize_metrics", "dict", NoVal, Absent, NoVal, Absent) >>))
    ELSE RouterPlan("FINALIZE", NoVal)

_create_fallback_plan(p, m) ==
    LET missing_metrics == {t \in Elems(p.tickers) : t \notin DOMAIN m}
    IN  IF missing_metrics # {} \/ DOMAIN m = {}
        THEN RouterPlan("CALL_TOOLS", L(<<
                ToolCall("fetch_prices", "dict",
                         L(IF Len(p.tickers) > 0 THEN p.tickers ELSE DefaultTicker),
                         p.interval, NoVal,
                         IF p.start \in {Absent, None} THEN Absent ELSE p.start),
                ToolCall("compute_indicators", "dict", NoVal, Absent,
                         L(<<"sma20", "rsi14", "macd">>), Absent),
                ToolCall("summarize_metrics", "dict", NoVal, Absent, NoVal, Absent) >>))
        ELSE RouterPlan("FINALIZE", NoVal)

MaxIterations == 3

\* the guardrail test of both routers
ForceFinalizeNever(new_iterations) == FALSE

ForceFinalizeLate(new_iterations) == new_iterations > MaxIterations

ForceFinalize(new_iterations) == new_iterations >= MaxIterations

\* router_node: whether the planner was invoked, the exception that escapes, and the
\* returned update (iterations, __plan__)
router_node(its, p, m, content) ==
    LET new_iterations == its + 1
    IN  IF ForceFinalize(new_iterations)
        THEN [invoked |-> FALSE, exc |-> None, iterations |-> new_iterations,
              plan |-> RouterPlan("FINALIZE", NoVal)]
        ELSE LET parsedReply == _parse_json_with_fallback(content)
                 coerced == coerce_plan(parsedReply.obj)
             IN  IF parsedReply.exc # None
                 THEN [invoked |-> TRUE, exc |-> None, iterations |-> new_iterations,
                       plan |-> _create_fallback_plan(p, m)]
                 ELSE IF coerced.exc = "ValueError"
                 THEN [invoked |-> TRUE, exc |-> None, iterations |-> new_iterations,
                       plan |-> _create_fallback_plan(p, m)]
                 ELSE IF coerced.exc # None
                 THEN [invoked |-> TRUE, exc |-> coerced.exc, iterations |-> its,
                       plan |-> NoPlan]
                 ELSE [invoked |-> TRUE, exc |-> None, iterations |-> new_iterations,
                       plan |-> coerced.plan]

----------------------------------------------------------------------------
(* src/afa/nodes/router.py: the rule-based router *)

\* a variant that returns the counter as it found it once metrics exist
basic_router_node_uncounted(its, p, m) ==
    LET new_iterations == its + 1
    IN  IF ForceFinalize(new_iterations)
        THEN [invoked |-> FALSE, exc |-> None, iterations |-> new_iterations,
              plan |-> RouterPlan("FINALIZE", L(<<>>))]
        ELSE IF DOMAIN m = {}
        THEN [invoked |-> FALSE, exc |-> None, iterations |-> new_iterations,
              plan |-> RouterPlan("CALL_TOOLS", L(<<
                ToolCall("fetch_prices", "dict", L(p.tickers), p.interval, NoVal, Absent),
                ToolCall("compute_indicators", "dict", NoVal, Absent, NoVal, Absent),
                ToolCall("summarize_metrics", "dict", NoVal, Absent, NoVal, Absent) >>))]
        ELSE [invoked |-> FALSE, exc |-> None, iterations |-> its,
              plan |-> RouterPlan("FINALIZE", L(<<>>))]

basic_router_node(its, p, m) ==
    LET new_iterations == its + 1
    IN  IF ForceFinalize(new_iterations)
        THEN [invoked |-> FALSE, exc |-> None, iterations |-> new_iterations,
              plan |-> RouterPlan("FINALIZE", L(<<>>))]
        ELSE IF DOMAIN m = {}
        THEN [invoked |-> FALSE, exc |-> None, iterations |-> new_iterations,
              plan |-> RouterPlan("CALL_TOOLS", L(<<
                ToolCall("fetch_prices", "dict", L(p.tickers), p.interval, NoVal, Absent),
                ToolCall("compute_indicators", "dict", NoVal, Absent, NoVal, Absent),
                ToolCall("summarize_metrics", "dict", NoVal, Absent, NoVal, Absent) >>))]
        ELSE [invoked |-> FALSE, exc |-> None, iterations |-> new_iterations,
              plan |-> RouterPlan("FINALIZE", L(<<>>))]

----------------------------------------------------------------------------
(* afa/graph.py *)

_route_decider_inverted(p) ==
    LET next_action == IF p.t = "missing" \/ p.next_action = Absent THEN "FINALIZE"
                       ELSE p.next_action
    IN  IF next_action = "FINALIZE" THEN "FINALIZE" ELSE "CALL_TOOLS"

_route_decider(p) ==
    LET next_action == IF p.t = "missing" \/ p.next_action = Absent THEN "FINALIZE"
                       ELSE p.next_action
    IN  IF next_action = "CALL_TOOLS" THEN "CALL_TOOLS" ELSE "FINALIZE"

\* The merge of a node's update into the state: a key the schema declares is
\* written; what happens to any other key is the graph library's choice.
Merged(key, old, new) ==
    IF key \in ConversationState \/ keepsUndeclared THEN new ELSE old

----------------------------------------------------------------------------
(* afa/nodes/finalizer.py *)

\* str.strip() on a text of blanks and letters
RECURSIVE LStrip(_)
LStrip(s) == IF Len(s) > 0 /\ s[1] = " " THEN LStrip(Tail(s)) ELSE s

RECURSIVE RStrip(_)
RStrip(s) == IF Len(s) > 0 /\ s[Len(s)] = " " THEN RStrip(SubSeq(s, 1, Len(s) - 1)) ELSE s

Strip(s) == RStrip(LStrip(s))

finalizer_node_raw(content) == Answer(content)

finalizer_node(content) == Answer(Strip(content))

----------------------------------------------------------------------------
(* Calendar dates, as pandas computes with them *)

Date(y, m, d) == [y |-> y, m |-> m, d |-> d]

\* Python None where a date is expected
NoDate == Date(0, 0, 0)

IsLeap(y) == (y % 4 = 0 /\ y % 100 # 0) \/ y % 400 = 0

DaysInMonth(y, m) ==
    IF m = 2 THEN (IF IsLeap(y) THEN 29 ELSE 28)
    ELSE IF m \in {4, 6, 9, 11} THEN 30 ELSE 31

\* the number of days from 1970-01-01 to the date (proleptic Gregorian calendar)
DayNumber(dt) ==
    LET y == IF dt.m <= 2 THEN dt.y - 1 ELSE dt.y
        era == y \div 400
        yoe == y - era * 400
        mp == IF dt.m > 2 THEN dt.m - 3 ELSE dt.m + 9
        doy == (153 * mp + 2) \div 5 + dt.d - 1
        doe == yoe * 365 + yoe \div 4 - yoe \div 100 + doy
    IN  era * 146097 + doe - 719468

\* the date that lies the given number of days after 1970-01-01
FromDayNumber(days) ==
    LET z == days + 719468
        era == z \div 146097
        doe == z - era * 146097
        yoe == (doe - doe \div 1460 + doe \div 36524 - doe \div 146096) \div 365
        doy == doe - (365 * yoe + yoe \div 4 - yoe \div 100)
        mp == (5 * doy + 2) \div 153
        d == doy - (153 * mp + 2) \div 5 + 1
        m == IF mp < 10 THEN mp + 3 ELSE mp - 9
        y == yoe + era * 400
    IN  Date(IF m <= 2 THEN y + 1 ELSE y, m, d)

\* ts - pd.DateOffset(months=n): the month moves, the day is cut to the month's end
SubMonths(dt, n) ==
    LET total == dt.y * 12 + (dt.m - 1) - n
        y == total \div 12
        m == (total % 12) + 1
    IN  Date(y, m, IF dt.d > DaysInMonth(y, m) THEN DaysInMonth(y, m) ELSE dt.d)

\* ts - pd.DateOffset(years=n)
SubYears(dt, n) ==
    Date(dt.y - n, dt.m,
         IF dt.d > DaysInMonth(dt.y - n, dt.m) THEN DaysInMonth(dt.y - n, dt.m) ELSE dt.d)

\* ts - pd.DateOffset(days=n)
SubDays(dt, n) == FromDayNumber(DayNumber(dt) - n)

----------------------------------------------------------------------------
(* afa/parsing/timeframes.py, in its two variants *)

\* A text is the sequence of its expressions.  Each expression is what one of the
\* regular expressions can match, or a word none of them matches:
\*   fromto    "[from ]D1 to D2"        lead is "from" or ""
\*   since     "since D1" / "from D1"   lead is "since" or "from"
\*   ytd       "ytd"
\*   relative  "last|past N units"      lead, n, unit in day/week/month/year
\*   single    "last|past unit"         lead, unit
\*   compact   "Nu"                     n, unit in d/w/m/y
\*   word      anything else
Expr(kind, lead, n, unit, d1, d2) ==
    [kind |-> kind, lead |-> lead, n |-> n, unit |-> unit, d1 |-> d1, d2 |-> d2]

\* the index of the first expression of the text that satisfies Match, 0 if none
FirstMatch(text, Match(_)) ==
    IF \E i \in 1..Len(text) : Match(text[i])
    THEN CHOOSE i \in 1..Len(text) : Match(text[i]) /\ \A j \in 1..(i - 1) : ~Match(text[j])
    ELSE 0

Window(s, e) == [s |-> s, e |-> e]
NoWindow == Window(NoDate, NoDate)

_apply_offset(today, unit, n) ==
    CASE unit \in {"d", "day"} -> SubDays(today, n)
      [] unit \in {"w", "week"} -> SubDays(today, 7 * n)
      [] unit \in {"m", "month"} -> SubMonths(today, n)
      [] OTHER -> SubYears(today, n)

\* _COMPACT_RE of src/afa/parsing/timeframes.py
_COMPACT_RE ==
    {<<1, "d">>, <<5, "d">>, <<1, "w">>, <<1, "m">>, <<3, "m">>, <<6, "m">>, <<9, "m">>,
     <<1, "y">>, <<2, "y">>, <<5, "y">>}

\* compact_pattern / token_map of the agentic-fin-analyst variant
compact_pattern == _COMPACT_RE \cup {<<3, "y">>}

_parse_absolute(text, today) ==
    LET IsFromTo(x) == x.kind = "fromto"
        IsSince(x) == x.kind = "since"
        m == FirstMatch(text, IsFromTo)
        m2 == FirstMatch(text, IsSince)
    IN  IF m # 0 THEN Window(text[m].d1, text[m].d2)
        ELSE IF m2 # 0 THEN Window(text[m2].d1, today)
        ELSE NoWindow

_parse_ytd(text, today) ==
    LET IsYtd(x) == x.kind = "ytd"
    IN  IF FirstMatch(text, IsYtd) # 0 THEN Window(Date(today.y, 1, 1), today) ELSE NoWindow

_parse_relative(text, today) ==
    LET IsRelative(x) == x.kind = "relative"
        IsSingle(x) == x.kind = "single"
        m == FirstMatch(text, IsRelative)
        m2 == FirstMatch(text, IsSingle)
    IN  IF m # 0 THEN Window(_apply_offset(today, text[m].unit, text[m].n), today)
        ELSE IF m2 # 0 THEN Window(_apply_offset(today, text[m2].unit, 1), today)
        ELSE NoWindow

_parse_compact(text, today) ==
    LET IsCompact(x) == x.kind = "compact" /\ <<x.n, x.unit>> \in _COMPACT_RE
        m == FirstMatch(text, IsCompact)
    IN  IF m # 0 THEN Window(_apply_offset(today, text[m].unit, text[m].n), today)
        ELSE NoWindow

\* the window length in days against 365 days a year
_infer_interval(start, end) ==
    LET delta_days == DayNumber(end) - DayNumber(start)
    IN  IF delta_days > 365 * 5 THEN "1mo"
        ELSE IF delta_days > 365 * 2 THEN "1wk"
        ELSE "1d"

\* coerce_dates: the two dates in order
coerce_dates(s, e) ==
    IF DayNumber(s) > DayNumber(e) THEN Window(e, s) ELSE Window(s, e)

Resolved(w) == [start |-> w.s, end |-> w.e, interval |-> _infer_interval(w.s, w.e)]

\* the search order of resolve_timeframe: the parsers, first to last
Parsers(text, today) ==
    <<_parse_absolute(text, today), _parse_ytd(text, today), _parse_relative(text, today),
      _parse_compact(text, today)>>

\* src/afa/parsing/timeframes.py
resolve_timeframe(text, today) ==
    LET tries == Parsers(text, today)
        Hit(w) == w # NoWindow
        k == FirstMatch(tries, Hit)
        w == IF k # 0 THEN tries[k] ELSE Window(_apply_offset(today, "m", 6), today)
    IN  Resolved(coerce_dates(w.s, w.e))

\* agentic-fin-analyst/src/afa/parsing/timeframes.py
agentic_resolve_timeframe(text, today) ==
    LET IsRelative(x) == x.kind = "relative"
        IsCompact(x) == x.kind = "compact" /\ <<x.n, x.unit>> \in compact_pattern
        IsYtd(x) == x.kind = "ytd"
        IsSimplePast(x) == x.kind = "single" /\ x.lead = "past" /\ x.unit # "day"
        IsSince(x) == x.kind = "since" /\ x.lead = "since"
        IsFromTo(x) == x.kind = "fromto" /\ x.lead = "from"
        relative_match == FirstMatch(text, IsRelative)
        compact_match == FirstMatch(text, IsCompact)
        simple_past_match == FirstMatch(text, IsSimplePast)
        since_match == FirstMatch(text, IsSince)
        from_to_match == FirstMatch(text, IsFromTo)
        w == IF relative_match # 0
                THEN Window(_apply_offset(today, text[relative_match].unit,
                                          text[relative_match].n), today)
             ELSE IF compact_match # 0
                THEN Window(_apply_offset(today, text[compact_match].unit,
                                          text[compact_match].n), today)
             ELSE IF FirstMatch(text, IsYtd) # 0 THEN Window(Date(today.y, 1, 1), today)
             ELSE IF simple_past_match # 0
                THEN Window(_apply_offset(today, text[simple_past_match].unit, 1), today)
             ELSE IF since_match # 0 THEN Window(text[since_match].d1, today)
             ELSE IF from_to_match # 0
                THEN Window(text[from_to_match].d1, text[from_to_match].d2)
             ELSE Window(_apply_offset(today, "m", 6), today)
    IN  Resolved(coerce_dates(w.s, w.e))

----------------------------------------------------------------------------
(* afa/parsing/intent.py *)

\* A text is a sequence of tokens separated by blanks; a token is a run of word
\* characters (a sequence of one-character strings), with or without a leading "$".
Token(dollar, word) == [dollar |-> dollar, word |-> word]

Letters ==
    {"A", "B", "C", "D", "E", "F", "G", "H", "I", "J", "K", "L", "M", "N", "O", "P", "Q",
     "R", "S", "T", "U", "V", "W", "X", "Y", "Z"}

\* str.upper() on one character, for the lower-case letters the texts use
UpperChar(c) ==
    CASE c = "t" -> "T"
      [] c = "s" -> "S"
      [] c = "l" -> "L"
      [] c = "a" -> "A"
      [] OTHER -> c

UpperWord(word) == [i \in 1..Len(word) |-> UpperChar(word[i])]

\* text.upper()
UpperText(text) ==
    [i \in 1..Len(text) |-> Token(text[i].dollar, UpperWord(text[i].word))]

STOPWORDS ==
    {<<"R", "S", "I">>, <<"M", "A", "C", "D">>, <<"E", "M", "A">>, <<"S", "M", "A">>,
     <<"B", "B">>, <<"B", "B", "A", "N", "D", "S">>, <<"V", "W", "A", "P">>,
     <<"Y", "T", "D">>, <<"U", "S", "D">>, <<"E", "P", "S">>, <<"P", "E">>,
     <<"E", "T", "F">>, <<"I", "P", "O">>, <<"E", "V">>,
     <<"E", "B", "I", "T", "D", "A">>, <<"A", "I">>, <<"A", "N", "D">>, <<"O", "R">>,
     <<"V", "S">>, <<"V">>, <<"V", "S", ".">>, <<"T", "H", "E">>, <<"A">>,
     <<"A", "N">>}

\* TICKER_PATTERN.findall on the text in upper case: the tokens of 1 to 5 letters.
\* The "$" of a token stands after a blank or at the start of the text, where the
\* pattern's leading \b cannot hold, so a match starts behind it.
RECURSIVE findall(_)
findall(text) ==
    IF Len(text) = 0 THEN <<>>
    ELSE LET word == Head(text).word
             rest == findall(Tail(text))
         IN  IF Len(word) \in 1..5 /\ \A i \in 1..Len(word) : word[i] \in Letters
             THEN <<word>> \o rest
             ELSE rest

IsPrefix(p, word) == Len(p) <= Len(word) /\ SubSeq(word, 1, Len(p)) = p

\* f"${ticker}" in text.upper(): the substring test
dollar_prefixed(ticker, upperText) ==
    \E i \in 1..Len(upperText) : upperText[i].dollar /\ IsPrefix(ticker, upperText[i].word)

\* the loop over the matches, from match k on
RECURSIVE extract_loop(_, _, _, _)
extract_loop(matches, k, tickers, upperText) ==
    IF k > Len(matches) THEN tickers
    ELSE LET ticker == matches[k]
         IN  IF ticker \in Elems(tickers) THEN extract_loop(matches, k + 1, tickers, upperText)
             ELSE IF ticker \in STOPWORDS
                THEN extract_loop(matches, k + 1, tickers, upperText)
             ELSE IF Len(ticker) <= 2 /\ ~dollar_prefixed(ticker, upperText)
                THEN extract_loop(matches, k + 1, tickers, upperText)
             ELSE extract_loop(matches, k + 1, Append(tickers, ticker), upperText)

extract_tickers(text) ==
    IF Len(text) = 0 THEN <<>>
    ELSE extract_loop(findall(UpperText(text)), 1, <<>>, UpperText(text))

\* " ".join(tickers), as a text
Joined(tickers) == [i \in 1..Len(tickers) |-> Token(FALSE, tickers[i])]

----------------------------------------------------------------------------
(* afa/tools/metrics.py: the two classifiers of the digest *)

\* A cell of a series: a number, or NaN (missing).
Num(v) == [nan |-> FALSE, v |-> v]
NaN == [nan |-> TRUE, v |-> 0]

\* the largest element of a non-empty set of row numbers
Last(S) == CHOOSE i \in S : \A j \in S : j <= i

\* df: hasCols (the columns the classifier needs are all present) and rows, each
\* with the cells macd and macd_signal
_classify_macd_state(df) ==
    IF ~df.hasCols THEN "unknown"
    ELSE LET macd == {i \in 1..Len(df.rows) : ~df.rows[i].macd.nan}
             macd_signal == {i \in 1..Len(df.rows) : ~df.rows[i].macd_signal.nan}
             common_index == macd \cap macd_signal
         IN  IF Cardinality(macd) < 2 \/ Cardinality(macd_signal) < 2 THEN "unknown"
             ELSE IF Cardinality(common_index) < 2 THEN "unknown"
             ELSE LET curr == Last(common_index)
                      prev == Last(common_index \ {curr})
                      prev_above == df.rows[prev].macd.v > df.rows[prev].macd_signal.v
                      curr_above == df.rows[curr].macd.v > df.rows[curr].macd_signal.v
                  IN  IF ~prev_above /\ curr_above THEN "cross_up"
                      ELSE IF prev_above /\ ~curr_above THEN "cross_down"
                      ELSE IF curr_above THEN "above"
                      ELSE IF ~curr_above THEN "below"
                      ELSE "flat"

\* the classification of one row with close, bb_low and bb_high present; the two
\* distances are compared with 0.1 of the band width
bb_classify(row) ==
    LET close == row.close.v
        bb_low == row.bb_low.v
        bb_high == row.bb_high.v
        band_width == bb_high - bb_low
    IN  IF close > bb_high THEN "above_upper"
        ELSE IF close < bb_low THEN "below_lower"
        ELSE IF band_width = 0 THEN "inside"
        ELSE IF 10 * (bb_high - close) < band_width THEN "near_upper"
        ELSE IF 10 * (close - bb_low) < band_width THEN "near_lower"
        ELSE "inside"

\* rows with the cells close, bb_low, bb_high, bb_mid
_classify_bb_position(df) ==
    IF ~df.hasCols THEN None
    ELSE LET valid == {i \in 1..Len(df.rows) :
                          /\ ~df.rows[i].bb_low.nan
                          /\ ~df.rows[i].bb_high.nan
                          /\ ~df.rows[i].bb_mid.nan
                          /\ ~df.rows[i].close.nan}
         IN  IF valid = {} THEN None ELSE bb_classify(df.rows[Last(valid)])

----------------------------------------------------------------------------
(* The inputs the model draws from *)

SeqsUpTo(S, n) == UNION {[1..k -> S] : k \in 0..n}

FetchA == ToolCall("fetch_prices", "dict", L(<<"AAPL">>), "1d", NoVal, "str")
FetchBoth == ToolCall("fetch_prices", "dict", L(<<"MSFT", "aapl", "AAPL">>), Absent, NoVal, None)
FetchSix ==
    ToolCall("fetch_prices", "dict", L(<<"AAPL", "MSFT", "AAPL", "MSFT", "AAPL", "MSFT">>),
             Absent, NoVal, Absent)
FetchNonStr == ToolCall("fetch_prices", "dict", L(<<"AAPL", NonStr>>), Absent, NoVal, Absent)
FetchBadInterval == ToolCall("fetch_prices", "dict", L(<<"AAPL">>), "1h", NoVal, Absent)
FetchUnhashInterval == ToolCall("fetch_prices", "dict", NoVal, Unhash, NoVal, Absent)
FetchNotList == ToolCall("fetch_prices", "dict", NotList, Absent, NoVal, Absent)
FetchBadStart == ToolCall("fetch_prices", "dict", L(<<"MSFT">>), "1wk", NoVal, NonStr)
ComputeAll == ToolCall("compute_indicators", "dict", NoVal, Absent, NoVal, Absent)
ComputeSome ==
    ToolCall("compute_indicators", "dict", L(<<"AAPL">>), Absent, L(<<"sma20", "macd">>), Absent)
ComputeUnknown == ToolCall("compute_indicators", "dict", NoVal, Absent, L(<<"vwap">>), Absent)
ComputeMixed ==
    ToolCall("compute_indicators", "dict", NoVal, Absent, L(<<"rsi14", "vwap">>), Absent)
ComputeUnhashInd == ToolCall("compute_indicators", "dict", NoVal, Absent, L(<<Unhash>>), Absent)
ComputeNotList == ToolCall("compute_indicators", "dict", NotList, Absent, NoVal, Absent)
ComputeOddTicker ==
    ToolCall("compute_indicators", "dict", L(<<"AAPL", Unhash>>), Absent, NoVal, Absent)
ComputeUnknownOddTicker ==
    ToolCall("compute_indicators", "dict", L(<<Unhash>>), Absent, L(<<"vwap">>), Absent)
ComputeExtraKey == ToolCall("compute_indicators", "dict", NoVal, "1h", NoVal, Absent)
SummAll == ToolCall("summarize_metrics", "dict", NoVal, Absent, NoVal, Absent)
SummA == ToolCall("summarize_metrics", "dict", L(<<"AAPL", NonStr>>), "1wk", NoVal, Absent)
SummBadInterval == ToolCall("summarize_metrics", "dict", NoVal, "1h", NoVal, Absent)
BogusTool == ToolCall("place_order", "dict", NoVal, Absent, NoVal, Absent)
NameMissing == ToolCall(Absent, "dict", NoVal, Absent, NoVal, Absent)
NameUnhash == ToolCall(Unhash, "dict", NoVal, Absent, NoVal, Absent)
ArgsMissing == ToolCall("summarize_metrics", Absent, NoVal, Absent, NoVal, Absent)
ArgsNotDict == ToolCall("fetch_prices", "notdict", NoVal, Absent, NoVal, Absent)

\* tool calls offered to the plan contract
ContractCalls ==
    {FetchA, FetchBoth, FetchSix, FetchNonStr, FetchBadInterval, FetchUnhashInterval,
     FetchNotList, FetchBadStart, ComputeAll, ComputeSome, ComputeUnknown, ComputeMixed,
     ComputeUnhashInd, ComputeNotList, ComputeOddTicker, ComputeExtraKey, SummAll, SummA, SummBadInterval,
     BogusTool, NameMissing, NameUnhash, ArgsMissing, ArgsNotDict, NotADict}

ToolCallsValues ==
    {NoVal, [t |-> "falsy", v |-> <<>>], [t |-> "num", v |-> <<>>]}
        \cup {L(s) : s \in SeqsUpTo(ContractCalls, MaxPlanLen)}

NextActionValues == {Absent, "CALL_TOOLS", "FINALIZE", "call_tools", Unhash}

\* JSON values offered to validate_plan
PlanObjects ==
    {PlanObj(t, Absent, NoVal) : t \in {"int", "null", "list", "list_k", "str", "str_k"}}
        \cup {PlanObj("dict", na, tc) : na \in NextActionValues, tc \in ToolCallsValues}

\* tool calls offered to tools_node called on its own
NodeCalls ==
    {FetchA, FetchBoth, ComputeAll, ComputeSome, ComputeUnknown, ComputeOddTicker,
     ComputeUnknownOddTicker, SummAll, SummA, BogusTool}

FullDigest == summarize_metrics(Series(2, 2, TRUE, {}), "1d")

IncomingFrames ==
    {EmptyMap,
     [t \in {"AAPL"} |-> Series(2, 2, TRUE, {"sma20"})],
     [t \in {"AAPL", "MSFT"} |-> IF t = "AAPL" THEN Series(2, 1, TRUE, {}) ELSE EmptyFrame],
     [t \in {"AAPL", "MSFT"} |-> IF t = "AAPL" THEN Series(2, 2, FALSE, {})
                                 ELSE Series(1, 1, TRUE, {"rsi14"})]}

IncomingMetrics ==
    {[t \in {} |-> FullDigest], [t \in {"AAPL"} |-> FullDigest], [t \in {"MSFT"} |-> FullDigest]}

\* the parsed intents of a run: no ticker, one, two, and a list of six entries
\* (validate_tool_call reads only the length of the list and the type of its
\* entries, fetch_prices removes the repetitions)
ParsedChoices ==
    {Parsed(<<>>, "1d"), Parsed(<<"AAPL">>, "1d"), Parsed(<<"AAPL", "MSFT">>, "1wk"),
     Parsed(<<"AAPL", "MSFT", "AAPL", "MSFT", "AAPL", "MSFT">>, "1d")}

\* the bodies of the planner replies of a run
PlannerBodies ==
    {PlanObj("int", Absent, NoVal), PlanObj("list", Absent, NoVal),
     RouterPlan("FINALIZE", NoVal), RouterPlan("FINALIZE", [t |-> "falsy", v |-> <<>>]),
     RouterPlan("call_tools", NoVal), RouterPlan("CALL_TOOLS", L(<<>>)),
     RouterPlan("CALL_TOOLS", L(<<FetchA, ComputeAll, SummAll>>)),
     RouterPlan("CALL_TOOLS", L(<<SummAll, FetchBoth, ComputeSome>>)),
     RouterPlan("CALL_TOOLS", L(<<FetchBoth, ComputeOddTicker, SummAll>>)),
     RouterPlan("CALL_TOOLS", L(<<FetchA, ComputeUnknown, SummAll>>)),
     RouterPlan("CALL_TOOLS", L(<<FetchA, SummA>>))}

WrappedBodies ==
    {PlanObj("int", Absent, NoVal), RouterPlan("FINALIZE", NoVal),
     RouterPlan("CALL_TOOLS", L(<<FetchA, SummA>>))}

PlannerReplies ==
    {Reply("bare", b) : b \in PlannerBodies}
        \cup {Reply(w, b) : w \in {"fenced", "prose"}, b \in WrappedBodies}
        \cup {Reply("fenced_bad", NoPlan), Reply("garbage", NoPlan)}

NoReply == Reply("none", NoPlan)

FinalTexts == SeqsUpTo({" ", "a"}, MaxText)

----------------------------------------------------------------------------
(* The run of the compiled graph: router -> (tools_node -> router)* -> finalizer *)

toolVars == <<dfs, mtr, calls, callIdx>>
contractVars == <<fin, fout>>
setup == <<mode, routerImpl, keepsUndeclared, parsed>>

Init ==
    /\ mode = "graph"
    /\ pc = "router"
    /\ routerImpl \in {"llm", "basic"}
    /\ keepsUndeclared \in BOOLEAN
    /\ parsed \in ParsedChoices
    /\ iterations = 0
    /\ plan = NoPlan
    /\ dataframes = EmptyMap
    /\ metrics = [t \in {} |-> FullDigest]
    /\ final_answer = NoAnswer
    /\ routerPlan = NoPlan
    /\ plannerCalls = 0
    /\ toolBatches = 0
    /\ dfs = EmptyMap
    /\ mtr = [t \in {} |-> FullDigest]
    /\ calls = <<>>
    /\ callIdx = 0
    /\ exc = None
    /\ route = None
    /\ node = "none"
    /\ lastReply = NoReply
    /\ fin = NoPlan
    /\ fout = Accept
    /\ finalReply = <<>>

\* the router node has returned r, or raised: the graph merges the update
RouterReturns(r) ==
    /\ node' = "router"
    /\ routerPlan' = r.plan
    /\ exc' = r.exc
    /\ IF r.exc # None
       THEN /\ pc' = "raised"
            /\ UNCHANGED <<iterations, plan>>
       ELSE /\ pc' = "decide"
            /\ iterations' = Merged("iterations", iterations, r.iterations)
            /\ plan' = Merged("__plan__", plan, r.plan)
    /\ UNCHANGED <<setup, finalReply, dataframes, metrics, final_answer, toolBatches, toolVars,
                   route, contractVars>>

RouterLLM ==
    /\ pc = "router"
    /\ routerImpl = "llm"
    /\ \E content \in PlannerReplies :
         LET r == router_node(iterations, parsed, metrics, content)
         IN  /\ plannerCalls' = IF r.invoked THEN plannerCalls + 1 ELSE plannerCalls
             /\ lastReply' = IF r.invoked THEN content ELSE NoReply
             /\ RouterReturns(r)

RouterBasic ==
    /\ pc = "router"
    /\ routerImpl = "basic"
    /\ UNCHANGED <<plannerCalls, lastReply>>
    /\ RouterReturns(basic_router_node(iterations, parsed, metrics))

RouteDecide ==
    /\ pc = "decide"
    /\ route' = _route_decider(plan)
    /\ pc' = IF route' = "CALL_TOOLS" THEN "tools" ELSE "finalizer"
    /\ UNCHANGED <<setup, finalReply, iterations, plan, dataframes, metrics, final_answer, routerPlan,
                   plannerCalls, toolBatches, toolVars, exc, node, lastReply, contractVars>>

\* The environment's part in one tool call: what the download answers (read by
\* fetch_prices only) and the tickers whose data makes the arithmetic fail (read by
\* the two per-ticker tools only).
OutcomesFor(call) ==
    IF call.name = "fetch_prices" THEN FetchOutcomes
    ELSE {[raises |-> FALSE, data |-> [t \in TickerSyms |-> EmptyFrame]]}

DataErrorsFor(call) ==
    IF call.name \in {"compute_indicators", "summarize_metrics"} THEN SUBSET TickerSyms
    ELSE {{}}

Reversed(s) == [i \in 1..Len(s) |-> s[Len(s) + 1 - i]]

\* a variant that walks the list of tool calls from its end
ToolsEnter_reversed ==
    /\ pc = "tools"
    /\ node' = "tools_node"
    /\ toolBatches' = toolBatches + 1
    /\ dfs' = dataframes
    /\ mtr' = metrics
    /\ callIdx' = 0
    /\ IF plan.tool_calls.t \in {"absent", "list"}
       THEN /\ calls' = Reversed(plan.tool_calls.v)
            /\ pc' = "tools_loop"
            /\ exc' = None
       ELSE /\ calls' = <<>>
            /\ pc' = "raised"
            /\ exc' = "TypeError"
    /\ UNCHANGED <<setup, finalReply, iterations, plan, dataframes, metrics, final_answer, routerPlan,
                   plannerCalls, route, lastReply, contractVars>>

\* tools_node, lines 66-72: read the plan, copy the two maps
ToolsEnter ==
    /\ pc = "tools"
    /\ node' = "tools_node"
    /\ toolBatches' = toolBatches + 1
    /\ dfs' = dataframes
    /\ mtr' = metrics
    /\ callIdx' = 0
    /\ IF plan.tool_calls.t \in {"absent", "list"}
       THEN /\ calls' = plan.tool_calls.v
            /\ pc' = "tools_loop"
            /\ exc' = None
       ELSE /\ calls' = <<>>
            /\ pc' = "raised"
            /\ exc' = "TypeError"
    /\ UNCHANGED <<setup, finalReply, iterations, plan, dataframes, metrics, final_answer, routerPlan,
                   plannerCalls, route, lastReply, contractVars>>

\* a variant of the loop that works on the maps of the incoming state themselves
ToolsCall_shared ==
    /\ pc = "tools_loop"
    /\ callIdx < Len(calls)
    /\ \E outcome \in OutcomesFor(calls[callIdx + 1]), bad \in DataErrorsFor(calls[callIdx + 1]) :
         LET r == tool_call_step(dfs, mtr, calls[callIdx + 1], parsed.interval, outcome, bad)
         IN  IF r.exc # None
             THEN /\ pc' = "raised"
                  /\ exc' = r.exc
                  /\ UNCHANGED <<dfs, mtr, callIdx, dataframes, metrics>>
             ELSE /\ pc' = "tools_loop"
                  /\ exc' = None
                  /\ dfs' = r.dfs
                  /\ mtr' = r.metrics
                  /\ dataframes' = r.dfs
                  /\ metrics' = r.metrics
                  /\ callIdx' = callIdx + 1
    /\ UNCHANGED <<setup, finalReply, iterations, plan, final_answer, routerPlan,
                   plannerCalls, toolBatches, calls, route, node, lastReply, contractVars>>

\* tools_node, lines 75-84: one iteration of the loop over tool_calls
ToolsCall ==
    /\ pc = "tools_loop"
    /\ callIdx < Len(calls)
    /\ \E outcome \in OutcomesFor(calls[callIdx + 1]), bad \in DataErrorsFor(calls[callIdx + 1]) :
         LET r == tool_call_step(dfs, mtr, calls[callIdx + 1], parsed.interval, outcome, bad)
         IN  IF r.exc # None
             THEN /\ pc' = "raised"
                  /\ exc' = r.exc
                  /\ UNCHANGED <<dfs, mtr, callIdx>>
             ELSE /\ pc' = "tools_loop"
                  /\ exc' = None
                  /\ dfs' = r.dfs
                  /\ mtr' = r.metrics
                  /\ callIdx' = callIdx + 1
    /\ UNCHANGED <<setup, finalReply, iterations, plan, dataframes, metrics, final_answer, routerPlan,
                   plannerCalls, toolBatches, calls, route, node, lastReply, contractVars>>

\* tools_node, lines 86-89, and the edge tools_node -> router
ToolsReturn ==
    /\ pc = "tools_loop"
    /\ callIdx = Len(calls)
    /\ dataframes' = Merged("dataframes", dataframes, dfs)
    /\ metrics' = Merged("metrics", metrics, mtr)
    /\ pc' = IF mode = "graph" THEN "router" ELSE "returned"
    /\ UNCHANGED <<setup, finalReply, iterations, plan, final_answer, routerPlan, plannerCalls,
                   toolBatches, toolVars, exc, route, node, lastReply, contractVars>>

Finalizer ==
    /\ pc = "finalizer"
    /\ node' = "finalizer"
    /\ \E content \in FinalTexts :
         /\ finalReply' = content
         /\ final_answer' = Merged("final_answer", final_answer, finalizer_node(content))
    /\ pc' = "done"
    /\ UNCHANGED <<setup, iterations, plan, dataframes, metrics, routerPlan, plannerCalls,
                   toolBatches, toolVars, exc, route, lastReply, contractVars>>

Next ==
    \/ RouterLLM
    \/ RouterBasic
    \/ RouteDecide
    \/ ToolsEnter
    \/ ToolsCall
    \/ ToolsReturn
    \/ Finalizer

Spec == Init /\ [][Next]_vars

\* Every node returns once entered (the planner, the price fetch and the finalizer
\* are synchronous calls that return), so an enabled step is eventually taken.
FairSpec == Spec /\ WF_vars(Next)

----------------------------------------------------------------------------
(* tools_node called on its own, on any incoming state and plan *)

InitTools ==
    /\ mode = "tools"
    /\ pc = "tools"
    /\ routerImpl = "llm"
    /\ keepsUndeclared = TRUE
    /\ parsed \in {Parsed(<<"AAPL">>, "1d"), Parsed(<<"AAPL", "MSFT">>, "1wk")}
    /\ iterations = 1
    /\ plan \in {RouterPlan("CALL_TOOLS", L(s)) : s \in SeqsUpTo(NodeCalls, MaxCalls)}
    /\ dataframes \in IncomingFrames
    /\ metrics \in IncomingMetrics
    /\ final_answer = NoAnswer
    /\ routerPlan = plan
    /\ plannerCalls = 1
    /\ toolBatches = 0
    /\ dfs = EmptyMap
    /\ mtr = [t \in {} |-> FullDigest]
    /\ calls = <<>>
    /\ callIdx = 0
    /\ exc = None
    /\ route = "CALL_TOOLS"
    /\ node = "router"
    /\ lastReply = NoReply
    /\ fin = NoPlan
    /\ fout = Accept
    /\ finalReply = <<>>

NextTools ==
    \/ ToolsEnter
    \/ ToolsCall
    \/ ToolsReturn

SpecTools == InitTools /\ [][NextTools]_vars

----------------------------------------------------------------------------
(* The plan contract and the route decision called on their own *)

InitContract ==
    /\ mode = "plan"
    /\ pc = "validate"
    /\ routerImpl = "llm"
    /\ keepsUndeclared = TRUE
    /\ parsed = Parsed(<<"AAPL">>, "1d")
    /\ iterations = 0
    /\ plan = NoPlan
    /\ dataframes = EmptyMap
    /\ metrics = [t \in {} |-> FullDigest]
    /\ final_answer = NoAnswer
    /\ routerPlan = NoPlan
    /\ plannerCalls = 0
    /\ toolBatches = 0
    /\ dfs = EmptyMap
    /\ mtr = [t \in {} |-> FullDigest]
    /\ calls = <<>>
    /\ callIdx = 0
    /\ exc = None
    /\ route = None
    /\ node = "none"
    /\ lastReply = NoReply
    /\ fin \in PlanObjects
    /\ fout = Accept
    /\ finalReply = <<>>

Validate ==
    /\ pc = "validate"
    /\ fout' = validate_plan(fin)
    /\ pc' = "validated"
    /\ UNCHANGED <<setup, finalReply, iterations, plan, dataframes, metrics, final_answer, routerPlan,
                   plannerCalls, toolBatches, toolVars, exc, route, node, lastReply, fin>>

\* coerce_plan(fin): the returned plan is kept in routerPlan, the exception in exc
Coerce ==
    /\ pc = "validated"
    /\ LET c == coerce_plan(fin)
       IN  /\ routerPlan' = c.plan
           /\ exc' = c.exc
    /\ pc' = "coerced"
    /\ UNCHANGED <<setup, finalReply, iterations, plan, dataframes, metrics, final_answer,
                   plannerCalls, toolBatches, toolVars, route, node, lastReply,
                   contractVars>>

\* coerce_plan applied to the plan coerce_plan returned
Recoerce ==
    /\ pc = "coerced"
    /\ exc = None
    /\ LET c == coerce_plan(routerPlan)
       IN  /\ plan' = c.plan
           /\ exc' = c.exc
    /\ pc' = "recoerced"
    /\ UNCHANGED <<setup, finalReply, iterations, dataframes, metrics, final_answer, routerPlan,
                   plannerCalls, toolBatches, toolVars, route, node, lastReply,
                   contractVars>>

NextContract ==
    \/ Validate
    \/ Coerce
    \/ Recoerce

SpecContract == InitContract /\ [][NextContract]_vars

\* the state holds any plan a dictionary can be, or none
InitDecide ==
    /\ mode = "decide"
    /\ pc = "decide"
    /\ routerImpl = "llm"
    /\ keepsUndeclared = TRUE
    /\ parsed = Parsed(<<"AAPL">>, "1d")
    /\ iterations = 1
    /\ plan \in {NoPlan} \cup {o \in PlanObjects : o.t = "dict"}
    /\ dataframes = EmptyMap
    /\ metrics = [t \in {} |-> FullDigest]
    /\ final_answer = NoAnswer
    /\ routerPlan = plan
    /\ plannerCalls = 0
    /\ toolBatches = 0
    /\ dfs = EmptyMap
    /\ mtr = [t \in {} |-> FullDigest]
    /\ calls = <<>>
    /\ callIdx = 0
    /\ exc = None
    /\ route = None
    /\ node = "router"
    /\ lastReply = NoReply
    /\ fin = NoPlan
    /\ fout = Accept
    /\ finalReply = <<>>

SpecDecide == InitDecide /\ [][RouteDecide]_vars

----------------------------------------------------------------------------
(* The parsing and digest functions called on their own *)

\* the state of the graph, at rest while one function is exercised
graphVars ==
    <<mode, routerImpl, keepsUndeclared, parsed, iterations, plan, dataframes, metrics,
      final_answer, routerPlan, plannerCalls, toolBatches, dfs, mtr, calls, callIdx, exc,
      route, node, lastReply, finalReply>>

GraphIdle ==
    /\ routerImpl = "llm"
    /\ keepsUndeclared = TRUE
    /\ parsed = Parsed(<<"AAPL">>, "1d")
    /\ iterations = 0
    /\ plan = NoPlan
    /\ dataframes = EmptyMap
    /\ metrics = [t \in {} |-> FullDigest]
    /\ final_answer = NoAnswer
    /\ routerPlan = NoPlan
    /\ plannerCalls = 0
    /\ toolBatches = 0
    /\ dfs = EmptyMap
    /\ mtr = [t \in {} |-> FullDigest]
    /\ calls = <<>>
    /\ callIdx = 0
    /\ exc = None
    /\ route = None
    /\ node = "none"
    /\ lastReply = NoReply
    /\ finalReply = <<>>

AnchorYears == {2023, 2024}
AnchorDays == {1, 2, 28, 29, 30, 31}

\* the anchor dates ("today")
Anchors ==
    {dt \in {Date(y, m, d) : y \in AnchorYears, m \in 1..12, d \in AnchorDays} :
        dt.d <= DaysInMonth(dt.y, dt.m)}

AWord == Expr("word", "", 0, "", NoDate, NoDate)
FromToA == Expr("fromto", "from", 0, "", Date(2024, 1, 15), Date(2024, 7, 1))
SinceA == Expr("since", "since", 0, "", Date(2022, 3, 1), NoDate)
Ytd == Expr("ytd", "", 0, "", NoDate, NoDate)
Last3Months == Expr("relative", "last", 3, "month", NoDate, NoDate)
PastWeek == Expr("single", "past", 0, "week", NoDate, NoDate)
Compact(n, unit) == Expr("compact", "", n, unit, NoDate, NoDate)

PhraseExprs ==
    {AWord, FromToA, SinceA, Ytd, Last3Months, PastWeek, Compact(3, "m"), Compact(2, "y")}

\* texts whose only timeframe expression is one compact token
CompactOnlyTexts ==
    UNION {{<<Compact(c[1], c[2])>>, <<AWord, Compact(c[1], c[2])>>,
            <<Compact(c[1], c[2]), AWord>>} : c \in compact_pattern}

TimeframeTexts == SeqsUpTo(PhraseExprs, MaxExprs) \cup CompactOnlyTexts

InitTimeframe ==
    /\ mode = "timeframe"
    /\ pc = "resolve"
    /\ GraphIdle
    /\ fin \in {[impl |-> i, text |-> t, today |-> a] :
                  i \in {"afa", "agentic"}, t \in TimeframeTexts, a \in Anchors}
    /\ fout = Resolved(NoWindow)

ResolveTimeframe ==
    /\ pc = "resolve"
    /\ fout' = IF fin.impl = "afa" THEN resolve_timeframe(fin.text, fin.today)
               ELSE agentic_resolve_timeframe(fin.text, fin.today)
    /\ pc' = "resolved"
    /\ UNCHANGED <<graphVars, fin>>

SpecTimeframe == InitTimeframe /\ [][ResolveTimeframe]_vars

TickerWords ==
    {<<"T">>, <<"t">>, <<"I", "N">>, <<"A", "I">>, <<"T", "S", "L", "A">>,
     <<"t", "s", "l", "a">>, <<"M", "O", "N", "T", "H", "S">>, <<"3">>}

IntentTexts ==
    SeqsUpTo({Token(d, w) : d \in BOOLEAN, w \in TickerWords}, MaxTokens)

InitTickers ==
    /\ mode = "tickers"
    /\ pc = "extract"
    /\ GraphIdle
    /\ fin \in {[text |-> t] : t \in IntentTexts}
    /\ fout = [tickers |-> <<>>, again |-> <<>>]

ExtractTickers ==
    /\ pc = "extract"
    /\ fout' = [tickers |-> extract_tickers(fin.text), again |-> <<>>]
    /\ pc' = "extracted"
    /\ UNCHANGED <<graphVars, fin>>

\* extract_tickers on its own output joined into a text
ExtractAgain ==
    /\ pc = "extracted"
    /\ fout' = [fout EXCEPT !.again = extract_tickers(Joined(fout.tickers))]
    /\ pc' = "extracted_again"
    /\ UNCHANGED <<graphVars, fin>>

NextTickers ==
    \/ ExtractTickers
    \/ ExtractAgain

SpecTickers == InitTickers /\ [][NextTickers]_vars

MacdCells == {NaN, Num(0), Num(1)}
MacdRows == {[macd |-> a, macd_signal |-> b] : a \in MacdCells, b \in MacdCells}

MacdFrames ==
    {[hasCols |-> c, rows |-> r] : c \in BOOLEAN, r \in SeqsUpTo(MacdRows, MaxRows)}

BBRow(close, low, high, mid) ==
    [close |-> close, bb_low |-> low, bb_high |-> high, bb_mid |-> mid]

\* the latest row of a series: every combination of missing cells, a band of width
\* 20 or 0, and a close on both sides of every threshold
LatestRows ==
    {BBRow(c, l, h, m) :
        c \in {NaN} \cup {Num(v) : v \in {-1, 1, 2, 10, 18, 19, 21}},
        l \in {NaN, Num(0)}, h \in {NaN, Num(0), Num(20)}, m \in {NaN, Num(10)}}

\* the rows before it
EarlierRows ==
    {BBRow(Num(19), Num(0), Num(20), Num(10)), BBRow(Num(10), Num(0), Num(20), Num(10)),
     BBRow(NaN, NaN, NaN, NaN)}

BBFrames ==
    {[hasCols |-> c, rows |-> r] :
        c \in BOOLEAN,
        r \in {<<>>} \cup {hist \o <<last>> :
                              hist \in SeqsUpTo(EarlierRows, MaxRows - 1),
                              last \in LatestRows}}

\* arguments of summarize_metrics: every row count up to MaxRows, every count of
\* non-missing closes among them, with and without a Close column
SummarizeFrames ==
    {a \in [df : {Series(r, v, c, {}) : r \in 0..MaxRows, v \in 0..MaxRows, c \in BOOLEAN},
            interval : Intervals] :
        /\ a.df.valid <= a.df.rows
        /\ ~a.df.close => a.df.valid = 0}

IndicatorLists ==
    {NoVal, L(<<>>), L(<<"sma20">>), L(<<"macd", "bbands">>), L(<<"rsi14", "vwap">>),
     L(<<"vwap", "rsi14">>), L(<<"vwap">>), L(<<"sma20", "sma20">>)}

\* arguments of compute_indicators_pandas
IndicatorFrames ==
    [df : {Series(r, r, c, cols) : r \in 0..MaxRows, c \in BOOLEAN,
                                   cols \in {{}, {"sma20"}, {"rsi14", "macd"}}},
     indicators : IndicatorLists]

InitDigest ==
    /\ mode = "digest"
    /\ GraphIdle
    /\ \/ /\ pc = "macd_state"
          /\ fin \in MacdFrames
       \/ /\ pc = "bb_position"
          /\ fin \in BBFrames
       \/ /\ pc = "summarize"
          /\ fin \in SummarizeFrames
       \/ /\ pc = "indicators"
          /\ fin \in IndicatorFrames
    /\ fout = None

ClassifyMacd ==
    /\ pc = "macd_state"
    /\ fout' = _classify_macd_state(fin)
    /\ pc' = "macd_classified"
    /\ UNCHANGED <<graphVars, fin>>

ClassifyBB ==
    /\ pc = "bb_position"
    /\ fout' = _classify_bb_position(fin)
    /\ pc' = "bb_classified"
    /\ UNCHANGED <<graphVars, fin>>

\* summarize_metrics(df, interval); the arithmetic of the numeric fields may fail
\* on the data, the early returns compute nothing
Summarize ==
    /\ pc = "summarize"
    /\ \E dataError \in BOOLEAN :
        LET digest == summarize_metrics(fin.df, fin.interval)
        IN  fout' = IF dataError /\ digest.numeric
                    THEN [exc |-> "Exception", digest |-> None]
                    ELSE [exc |-> None, digest |-> digest]
    /\ pc' = "summarized"
    /\ UNCHANGED <<graphVars, fin>>

\* compute_indicators_pandas(df, indicators)
ComputeIndicators ==
    /\ pc = "indicators"
    /\ \E dataError \in BOOLEAN :
        fout' = compute_indicators_pandas(fin.df, fin.indicators, dataError)
    /\ pc' = "indicators_computed"
    /\ UNCHANGED <<graphVars, fin>>

NextDigest ==
    \/ ClassifyMacd
    \/ ClassifyBB
    \/ Summarize
    \/ ComputeIndicators

SpecDigest == InitDigest /\ [][NextDigest]_vars

----------------------------------------------------------------------------
(* Properties of the control loop *)

\* C1: in every run, whatever the planner replies, the planner is invoked at most 3
\* times and tools_node executes at most 3 batches before the finalizer runs.
C1_BoundedPlannerAndTools ==
    plannerCalls <= MaxIterations /\ toolBatches <= MaxIterations

\* the planner asked for tools every time it was asked, and the finalizer has run
C1_Witness ==
    /\ pc = "done"
    /\ routerImpl = "llm"
    /\ plannerCalls = 2
    /\ toolBatches = 2

\* C2: every run started from initial_state reaches the finalizer and sets
\* final_answer, whatever the planner replies and whichever tool calls fail: a run
\* is never left without a next step before the finalizer has written its answer.
C2_EveryRunFinalizes ==
    (pc = "done" /\ ~final_answer.isNone) \/ ENABLED Next

\* C3: when router_node is entered and the incremented counter reaches 3, it returns
\* the FINALIZE plan without invoking the planner, whatever the state holds.
C3_CapForcesFinalize ==
    [][(pc = "router" /\ iterations + 1 = MaxIterations)
          => /\ pc' = "decide"
             /\ exc' = None
             /\ iterations' = MaxIterations
             /\ routerPlan'.next_action = "FINALIZE"
             /\ ~Truthy(routerPlan'.tool_calls)
             /\ plannerCalls' = plannerCalls
             /\ lastReply' = NoReply]_vars

\* the cap fired in a state without any metrics, where a plan would ask for tools
C3_Witness ==
    /\ pc = "decide"
    /\ iterations = MaxIterations
    /\ routerImpl = "llm"
    /\ DOMAIN metrics = {}
    /\ routerPlan.next_action = "FINALIZE"

\* a reply that cannot be parsed as JSON or whose value fails plan validation
InvalidReply(content) ==
    \/ _parse_json_with_fallback(content).exc # None
    \/ ~validate_plan(_parse_json_with_fallback(content).obj).ok

\* C4: for every planner reply that cannot be parsed or fails validation, router_node
\* raises nothing and returns the fallback plan with the incremented counter.
C4_InvalidReplyFallsBack ==
    (node = "router" /\ routerImpl = "llm" /\ lastReply # NoReply /\ InvalidReply(lastReply)
        /\ pc \in {"decide", "raised"})
      => /\ pc = "decide"
         /\ exc = None
         /\ routerPlan = _create_fallback_plan(parsed, metrics)

\* C5: _route_decider routes to the tools node exactly when the plan's next_action
\* is CALL_TOOLS; a missing plan, a missing next_action or any other value goes to
\* the finalizer.
C5_ToolsOnlyOnCallTools ==
    pc # "decide"
      => /\ pc \in {"tools", "finalizer"}
         /\ (pc = "tools") <=> (plan.t = "dict" /\ plan.next_action = "CALL_TOOLS")
         /\ (route = "CALL_TOOLS") <=> (pc = "tools")

\* an unrecognized action, with tool calls attached, went to the finalizer
C5_Witness ==
    /\ pc = "finalizer"
    /\ plan.t = "dict"
    /\ plan.next_action = "call_tools"
    /\ Truthy(plan.tool_calls)

----------------------------------------------------------------------------
(* Properties of tools_node *)

\* C6: a failure while executing one tool call never propagates out of tools_node
\* (and so never keeps the remaining tool calls from being executed).
C6_ToolsNeverRaise ==
    ~(pc = "raised" /\ node = "tools_node")

\* C7: the ticker sets of the series map and of the metrics map returned by
\* tools_node are supersets of those of the incoming state.
C7_TickersKept ==
    [][(pc = "tools_loop" /\ pc' \notin {"tools_loop", "raised"})
          => /\ DOMAIN dataframes \subseteq DOMAIN dataframes'
             /\ DOMAIN metrics \subseteq DOMAIN metrics']_vars

\* a batch that fetched AAPL alone returned with MSFT still in both maps
C7_Witness ==
    /\ pc = "returned"
    /\ Len(calls) = 2
    /\ calls[1] = FetchA
    /\ "MSFT" \in DOMAIN dataframes
    /\ "MSFT" \in DOMAIN metrics
    /\ dataframes["AAPL"].rows = 1

UnsupportedCompute(call) ==
    /\ call.kind = "dict"
    /\ call.name = "compute_indicators"
    /\ call.indicators.t = "list"
    /\ Elems(call.indicators.v) \ SUPPORTED_INDICATORS # {}

\* C8: when a compute_indicators call names an unsupported indicator, tools_node
\* leaves every series as it was before that call, keeps all tickers in both maps
\* and goes on to the following tool calls.
C8_UnsupportedIndicatorSkipped ==
    [][(pc = "tools_loop" /\ callIdx < Len(calls) /\ UnsupportedCompute(calls[callIdx + 1]))
          => /\ dfs' = dfs
             /\ mtr' = mtr
             /\ pc' = "tools_loop"
             /\ callIdx' = callIdx + 1]_vars

----------------------------------------------------------------------------
(* Properties of the plan contract *)

WellFormedPlan(obj) ==
    /\ obj.next_action \in {"CALL_TOOLS", "FINALIZE"}
    /\ obj.next_action = "CALL_TOOLS"
         => (obj.tool_calls.t = "list" /\ Len(obj.tool_calls.v) > 0)
    /\ obj.next_action = "FINALIZE"
         => (obj.tool_calls.t = "absent"
               \/ (obj.tool_calls.t = "list" /\ Len(obj.tool_calls.v) = 0))

\* C9: validate_plan accepts a plan only if next_action is CALL_TOOLS or FINALIZE,
\* with CALL_TOOLS tool_calls is a non-empty list, and with FINALIZE tool_calls is
\* absent or empty; every other combination is rejected with an error message.
C9_AcceptsOnlyWellFormed ==
    (pc = "validated" /\ fin.t = "dict")
      => /\ fout.ok => WellFormedPlan(fin)
         /\ ~WellFormedPlan(fin) => (~fout.ok /\ fout.exc = None /\ fout.error # None)

\* a tool call that breaks one of the contract's per-tool rules: an unknown tool
\* name, args that is no map, fetch_prices.tickers longer than 5 or holding a
\* non-string, an interval field (fetch_prices, summarize_metrics) outside the
\* allowed set, a compute_indicators indicator outside the vocabulary
InvalidCall(c) ==
    /\ c.kind = "dict"
    /\ \/ c.name \notin ToolNames \cup {Absent}
       \/ c.args = "notdict"
       \/ /\ c.name = "fetch_prices"
          /\ c.tickers.t = "list"
          /\ (Len(c.tickers.v) > MAX_TICKERS_PER_CALL
                \/ \E i \in 1..Len(c.tickers.v) : c.tickers.v[i] \in {NonStr, Unhash})
       \/ /\ c.name \in {"fetch_prices", "summarize_metrics"}
          /\ c.interval \notin Intervals \cup {Absent}
       \/ /\ c.name = "compute_indicators"
          /\ c.indicators.t = "list"
          /\ \E i \in 1..Len(c.indicators.v) : c.indicators.v[i] \notin ALLOWED_INDICATORS

FirstInvalid(tc) == CHOOSE i \in 1..Len(tc) :
    InvalidCall(tc[i]) /\ \A j \in 1..(i - 1) : ~InvalidCall(tc[j])

C11_CoerceAgreesWithValidate ==
    /\ pc \in {"coerced", "recoerced"}
         => /\ (~fout.ok /\ fout.exc = None)
                  <=> (pc = "coerced" /\ exc = "ValueError")
            /\ fout.ok
                  => /\ routerPlan.t = "dict"
                     /\ routerPlan.next_action = fin.next_action
                     /\ routerPlan.tool_calls = fin.tool_calls
                     /\ validate_plan(routerPlan).ok
    /\ (pc = "coerced" /\ exc = None) => fout.ok
    /\ pc = "recoerced" => (exc = None /\ plan = routerPlan)

\* an accepted CALL_TOOLS plan of two calls was coerced twice
C11_Witness ==
    /\ pc = "recoerced"
    /\ fin.next_action = "CALL_TOOLS"
    /\ Len(fin.tool_calls.v) = 2
    /\ plan.tool_calls = fin.tool_calls

----------------------------------------------------------------------------
(* Properties of the fallback plan and of the final answer *)

\* the router answered with its fallback plan: the planner's reply held no JSON
FellBack ==
    /\ node = "router"
    /\ routerImpl = "llm"
    /\ pc = "decide"
    /\ lastReply.wrap \in {"garbage", "fenced_bad"}

\* C12: the fallback plan is CALL_TOOLS with exactly the calls fetch_prices (the
\* requested tickers, or the one default ticker when none were parsed, with the
\* resolved dates and interval), compute_indicators with {sma20, rsi14, macd} and
\* summarize_metrics, in this order, when a requested ticker has no metrics or the
\* metrics map is empty; otherwise it is FINALIZE without tool calls.
C12_FallbackPlanShape ==
    FellBack =>
        IF (\E i \in 1..Len(parsed.tickers) : parsed.tickers[i] \notin DOMAIN metrics)
              \/ DOMAIN metrics = {}
        THEN /\ routerPlan.next_action = "CALL_TOOLS"
             /\ routerPlan.tool_calls.t = "list"
             /\ Len(routerPlan.tool_calls.v) = 3
             /\ LET tc == routerPlan.tool_calls.v
                IN  /\ tc[1].name = "fetch_prices"
                    /\ tc[1].tickers = L(IF parsed.tickers = <<>> THEN <<"AAPL">>
                                         ELSE parsed.tickers)
                    /\ tc[1].interval = parsed.interval
                    /\ tc[1].start = parsed.start
                    /\ tc[2].name = "compute_indicators"
                    /\ tc[2].indicators.t = "list"
                    /\ Len(tc[2].indicators.v) = 3
                    /\ Elems(tc[2].indicators.v) = {"sma20", "rsi14", "macd"}
                    /\ tc[2].tickers = NoVal
                    /\ tc[3].name = "summarize_metrics"
                    /\ tc[3].tickers = NoVal
        ELSE /\ routerPlan.next_action = "FINALIZE"
             /\ routerPlan.tool_calls = NoVal

\* two tickers were requested, one of them has metrics: the fallback asks for tools
C12_Witness ==
    /\ FellBack
    /\ parsed.tickers = <<"AAPL", "MSFT">>
    /\ DOMAIN metrics = {"AAPL"}
    /\ routerPlan.next_action = "CALL_TOOLS"

\* C13: final_answer is null in every state before the finalizer has run; it is
\* written by the finalizer alone, as the text of the finalizer's reply without its
\* surrounding whitespace; and no step of any node follows the finalizer's.
C13_AnswerOnlyByFinalizer ==
    [][/\ node # "finalizer"
       /\ final_answer.isNone
       /\ final_answer' # final_answer
            => /\ pc = "finalizer"
               /\ node' = "finalizer"
               /\ ~final_answer'.isNone
               /\ final_answer'.text = Strip(finalReply')
               /\ (final_answer'.text # <<>>
                     => (Head(final_answer'.text) # " "
                           /\ final_answer'.text[Len(final_answer'.text)] # " "))
       /\ node' # "finalizer" => final_answer'.isNone]_vars

\* the finalizer's reply " a " was recorded as "a" after a batch of tools
C13_Witness ==
    /\ pc = "done"
    /\ toolBatches = 1
    /\ finalReply = <<" ", "a", " ">>
    /\ final_answer = Answer(<<"a">>)

----------------------------------------------------------------------------
(* Properties of resolve_timeframe *)

Has(text, kinds) == \E i \in 1..Len(text) : text[i].kind \in kinds

\* the pattern that decided the window, told from the window itself
DecidedAbsolute ==
    \/ (fout.start = Date(2024, 1, 15) /\ fout.end = Date(2024, 7, 1))
    \/ (fout.start = Date(2022, 3, 1) /\ fout.end = fin.today)

DecidedYtd == fout.start = Date(fin.today.y, 1, 1) /\ fout.end = fin.today

\* "last 3 months" or "past week"
DecidedRelative ==
    /\ fout.end = fin.today
    /\ \/ DayNumber(fout.end) - DayNumber(fout.start) = 7
       \/ (12 * fout.end.y + fout.end.m) - (12 * fout.start.y + fout.start.m) = 3

MonthsBack(k) ==
    /\ fout.end = fin.today
    /\ (12 * fout.end.y + fout.end.m) - (12 * fout.start.y + fout.start.m) = k

\* C14: resolve_timeframe applies its patterns in the priority absolute range or
\* since, year-to-date, relative phrase, compact token, 6-month default: a text with
\* an absolute range or a since date resolves to it whatever else it holds, a text
\* with ytd and no absolute expression resolves as year-to-date, a text with a
\* relative phrase and neither of these resolves to the phrase, and a text with no
\* timeframe expression to the last 6 months.
C14_PatternPriority ==
    pc = "resolved"
      => /\ Has(fin.text, {"fromto", "since"}) => DecidedAbsolute
         /\ (Has(fin.text, {"ytd"}) /\ ~Has(fin.text, {"fromto", "since"})) => DecidedYtd
         /\ (Has(fin.text, {"relative", "single"})
               /\ ~Has(fin.text, {"fromto", "since", "ytd"})) => DecidedRelative
         /\ ~Has(fin.text, {"fromto", "since", "ytd", "relative", "single", "compact"})
              => MonthsBack(6)

\* the resolved window spans exactly k calendar years: same month and day
ExactYears(start, end, k) ==
    end.y = start.y + k /\ end.m = start.m /\ end.d = start.d

\* the end lies after the date k calendar years after the start
LongerThanYears(start, end, k) ==
    \/ end.y > start.y + k
    \/ end.y = start.y + k /\ end.m > start.m
    \/ end.y = start.y + k /\ end.m = start.m /\ end.d > start.d

\* C15: a resolved window of exactly 2 calendar years yields the daily interval and
\* one of exactly 2 years plus 1 day the weekly interval, whatever leap days the
\* window contains, and only a window longer than 5 calendar years yields monthly.
C15_IntervalByCalendarYears ==
    pc = "resolved"
      => /\ ExactYears(fout.start, fout.end, 2) => fout.interval = "1d"
         /\ ExactYears(fout.start, SubDays(fout.end, 1), 2) => fout.interval = "1wk"
         /\ fout.interval = "1mo" => LongerThanYears(fout.start, fout.end, 5)

\* the one compact token of a text of CompactOnlyTexts
TokenOf(text) == text[CHOOSE i \in 1..Len(text) : text[i].kind = "compact"]

ClampedDay(d, y, m) == IF d > DaysInMonth(y, m) THEN DaysInMonth(y, m) ELSE d

\* start is end minus n units of the calendar
OffsetBefore(start, end, n, unit) ==
    CASE unit = "d" -> DayNumber(end) - DayNumber(start) = n
      [] unit = "w" -> DayNumber(end) - DayNumber(start) = 7 * n
      [] unit = "m" -> /\ (12 * end.y + end.m) - (12 * start.y + start.m) = n
                       /\ start.d = ClampedDay(end.d, start.y, start.m)
      [] OTHER -> /\ start.y = end.y - n
                  /\ start.m = end.m
                  /\ start.d = ClampedDay(end.d, start.y, start.m)

\* C16: for every anchor date and each compact token of {1d, 5d, 1w, 1m, 3m, 6m, 9m,
\* 1y, 2y, 3y, 5y} that is the only timeframe expression of the text, resolve_timeframe
\* returns end = anchor and start = anchor minus the token's offset, with start < end.
C16_CompactTokenWindow ==
    (pc = "resolved" /\ fin.text \in CompactOnlyTexts)
      => /\ fout.end = fin.today
         /\ OffsetBefore(fout.start, fout.end, TokenOf(fin.text).n, TokenOf(fin.text).unit)
         /\ DayNumber(fout.start) < DayNumber(fout.end)

----------------------------------------------------------------------------
(* Properties of extract_tickers *)

\* C17: for every text, extract_tickers returns a list without duplicate symbols, and
\* extract_tickers on its own output joined by blanks returns the same list.
C17_TickersUniqueAndIdempotent ==
    /\ pc \in {"extracted", "extracted_again"}
         => \A i, j \in 1..Len(fout.tickers) : fout.tickers[i] = fout.tickers[j] => i = j
    /\ pc = "extracted_again" => fout.again = fout.tickers

\* C18: extract_tickers returns a symbol of 1 or 2 letters only if the text holds that
\* symbol as a whole token with "$" directly before it; a token of 1 or 2 letters
\* that occurs only bare is never returned.
C18_ShortSymbolNeedsDollar ==
    pc = "extracted"
      => \A k \in 1..Len(fout.tickers) :
            Len(fout.tickers[k]) <= 2
              => \E i \in 1..Len(fin.text) :
                    fin.text[i].dollar /\ UpperWord(fin.text[i].word) = fout.tickers[k]

----------------------------------------------------------------------------
(* Properties of the digest's classifiers *)

\* the rows where MACD and signal are both present
AlignedPairs(df) ==
    IF df.hasCols
    THEN {i \in 1..Len(df.rows) : ~df.rows[i].macd.nan /\ ~df.rows[i].macd_signal.nan}
    ELSE {}

\* MACD - signal at row i
Gap(df, i) == df.rows[i].macd.v - df.rows[i].macd_signal.v

\* C19: with at least 2 aligned non-missing MACD/signal pairs, macd_state follows the
\* sign of MACD - signal at the last two of them: cross_up from <= 0 to > 0,
\* cross_down from > 0 to <= 0, otherwise above when now > 0, below when now < 0 and
\* flat when MACD equals signal; with fewer than 2 pairs it is unknown.
C19_MacdStateBySign ==
    pc = "macd_classified"
      => IF Cardinality(AlignedPairs(fin)) < 2 THEN fout = "unknown"
         ELSE LET now == Gap(fin, Last(AlignedPairs(fin)))
                  before == Gap(fin, Last(AlignedPairs(fin) \ {Last(AlignedPairs(fin))}))
              IN  fout = (IF before <= 0 /\ now > 0 THEN "cross_up"
                          ELSE IF before > 0 /\ now <= 0 THEN "cross_down"
                          ELSE IF now > 0 THEN "above"
                          ELSE IF now < 0 THEN "below"
                          ELSE "flat")

\* the claim's classification of one row
BandPosition(row) ==
    LET width == row.bb_high.v - row.bb_low.v
    IN  IF row.close.v > row.bb_high.v THEN "above_upper"
        ELSE IF row.close.v < row.bb_low.v THEN "below_lower"
        ELSE IF width = 0 THEN "inside"
        ELSE IF 10 * (row.bb_high.v - row.close.v) < width THEN "near_upper"
        ELSE IF 10 * (row.close.v - row.bb_low.v) < width THEN "near_lower"
        ELSE "inside"

\* C20: bb_position is null unless close, bb_low and bb_high are all present on the
\* latest row; otherwise it is that row's band position: above_upper when close >
\* bb_high, below_lower when close < bb_low, inside when the band width is zero, else
\* near_upper when (bb_high - close)/width < 0.1, else near_lower when
\* (close - bb_low)/width < 0.1, else inside.
C20_BandPositionOfLatestRow ==
    pc = "bb_classified"
      => IF \/ ~fin.hasCols
            \/ Len(fin.rows) = 0
            \/ fin.rows[Len(fin.rows)].close.nan
            \/ fin.rows[Len(fin.rows)].bb_low.nan
            \/ fin.rows[Len(fin.rows)].bb_high.nan
         THEN fout = None
         ELSE fout = BandPosition(fin.rows[Len(fin.rows)])

\* C21: summarize_metrics does not raise on an empty series, on a series without a
\* Close column, or on a series with fewer than 2 non-missing closes; tested in
\* that order it returns note "no data" with null period dates, note "missing
\* Close column" with the period dates only, or note "insufficient data" with the
\* period dates and no numeric field.
C21_EdgeCasesInOrder ==
    (mode = "digest" /\ pc = "summarized") =>
        LET df == fin.df
        IN  /\ df.rows = 0 =>
                fout = [exc |-> None, digest |-> Digest("null", "no data", FALSE, Absent)]
            /\ (df.rows > 0 /\ ~df.close) =>
                fout = [exc |-> None,
                        digest |-> Digest("dates", "missing Close column", FALSE, Absent)]
            /\ (df.rows > 0 /\ df.close /\ df.valid < 2) =>
                fout = [exc |-> None,
                        digest |-> Digest("dates", "insufficient data", FALSE, Absent)]

\* two rows with a Close column of which only one is non-missing
C21_Witness ==
    /\ mode = "digest"
    /\ pc = "summarized"
    /\ fin.df = Series(2, 1, TRUE, {})
    /\ fout.exc = None
    /\ fout.digest.note = "insufficient data"

Requested(indicators) ==
    IF indicators.t = "absent" THEN SUPPORTED_INDICATORS ELSE Elems(indicators.v)

\* C22: compute_indicators_pandas leaves the series it is given as it was; when it
\* returns, the result is that series with the requested indicator columns
\* added; when the Close column is missing or a requested name is unsupported it
\* raises and no column has been added anywhere, whatever other names were asked.
C22_InputUntouched ==
    (mode = "digest" /\ pc = "indicators_computed") =>
        /\ fout.arg = fin.df
        /\ fout.exc = None =>
            fout.df = [fin.df EXCEPT !.cols = fin.df.cols \cup
                          UNION {IndicatorColumns(i) : i \in Requested(fin.indicators)}]
        /\ (~fin.df.close \/ Requested(fin.indicators) \ SUPPORTED_INDICATORS # {}) =>
            /\ fout.exc = "ValueError"
            /\ fout.df = fin.df

\* a supported name listed before an unsupported one, on a series with a Close column
C22_Witness ==
    /\ mode = "digest"
    /\ pc = "indicators_computed"
    /\ fin.df.close
    /\ fin.indicators = L(<<"rsi14", "vwap">>)
    /\ fout.exc = "ValueError"
    /\ fout.arg = fin.df

\* C23: the iteration counter is 0 in the initial state, every router step that
\* returns adds exactly 1 to it, no other step (tools, route decision, finalizer)
\* changes it, and it is at most 3 in every reachable state.
C23_CounterDiscipline ==
    /\ iterations = 0
    /\ [](iterations <= MaxIterations)
    /\ [][IF pc = "router" /\ exc' = None
           THEN iterations' = iterations + 1
           ELSE iterations' = iterations]_vars

\* a run that entered the router three times and the tools twice in between
C23_Witness ==
    /\ mode = "graph"
    /\ pc = "done"
    /\ iterations = MaxIterations
    /\ toolBatches = 2

\* C24: tools_node leaves the parsed intent, the plan, the iteration counter and
\* final_answer as they are, and while it runs the two maps of the incoming state
\* stay as they came in: the calls work on the node's own copies, and the maps of
\* the state change only when the node returns, to exactly those copies.
C24_ToolsFrame ==
    [][(mode = "tools") =>
          /\ UNCHANGED <<parsed, plan, iterations, final_answer>>
          /\ IF pc' = "returned"
             THEN dataframes' = dfs /\ metrics' = mtr
             ELSE UNCHANGED <<dataframes, metrics>>]_vars

\* a call has changed both working maps; the incoming maps still hold what came in
C24_Witness ==
    /\ mode = "tools"
    /\ pc = "tools_loop"
    /\ callIdx > 0
    /\ dfs # dataframes
    /\ mtr # metrics
    /\ dataframes \in IncomingFrames
    /\ metrics \in IncomingMetrics

\* C25: tools_node applies the tool calls of the plan in list order, call number
\* k to the working maps as calls 1..k-1 left them; a summarize_metrics call yields
\* the digest of every ticker it targets whose series in the working map is
\* non-empty and whose arithmetic succeeds, so a ticker that is new in this batch
\* has a digest only if a fetch_prices call stands before a summarize_metrics call.
C25_CallsInListOrder ==
    /\ [][(mode = "tools" /\ pc = "tools_loop" /\ pc' = "tools_loop") =>
             LET call == plan.tool_calls.v[callIdx + 1]
             IN  /\ callIdx' = callIdx + 1
                 /\ \E outcome \in OutcomesFor(call), bad \in DataErrorsFor(call) :
                      LET r == tool_call_step(dfs, mtr, call, parsed.interval, outcome, bad)
                      IN  /\ r.exc = None
                          /\ dfs' = r.dfs
                          /\ mtr' = r.metrics
                          /\ call.name = "summarize_metrics" =>
                                \A t \in Targets(dfs, call) :
                                    (dfs[t].rows > 0 /\ t \notin bad) => t \in DOMAIN mtr']_vars
    /\ []((mode = "tools" /\ pc = "tools_loop") =>
            \A t \in DOMAIN mtr \ DOMAIN metrics :
                \E i \in 1..callIdx :
                    /\ plan.tool_calls.v[i].name = "summarize_metrics"
                    /\ \/ t \in DOMAIN dataframes /\ dataframes[t].rows > 0
                       \/ \E j \in 1..(i - 1) : plan.tool_calls.v[j].name = "fetch_prices")

\* fetch_prices for a ticker the state had no series of, then summarize_metrics:
\* the ticker has its digest
C25_Witness ==
    /\ mode = "tools"
    /\ pc = "tools_loop"
    /\ plan.tool_calls.v = <<FetchA, SummAll>>
    /\ callIdx = 2
    /\ dataframes = EmptyMap
    /\ DOMAIN metrics = {}
    /\ "AAPL" \in DOMAIN mtr

\* C26: every plan router_node returns (the planner's, the fallback, the one
\* forced at the cap) is accepted by validate_plan, whatever the parsed intent.
C26_RouterPlansValid ==
    (mode = "graph" /\ node = "router" /\ exc = None) => validate_plan(routerPlan).ok

\* C27: in every state of a run every ticker that has a metrics digest has a
\* non-empty series in the series map.
C27_DigestsHaveSeries ==
    (mode = "graph") =>
        \A t \in DOMAIN metrics : t \in DOMAIN dataframes /\ dataframes[t].rows > 0

\* a batch has returned: one ticker has data and a digest, the other was fetched
\* empty and has none
C27_Witness ==
    /\ mode = "graph"
    /\ DOMAIN metrics = {"AAPL"}
    /\ DOMAIN dataframes = {"AAPL", "MSFT"}
    /\ dataframes["MSFT"].rows = 0

\* C28: a fetch_prices call never puts an empty series in the place of a non-empty
\* one: a ticker whose series has rows, in the working map of tools_node or in the
\* state, has a series with rows after every step, whatever a fetch returns.
C28_EmptyFetchKeepsData ==
    [][/\ \A t \in DOMAIN dfs :
            (pc = "tools_loop" /\ dfs[t].rows > 0) => (t \in DOMAIN dfs' /\ dfs'[t].rows > 0)
       /\ \A t \in DOMAIN dataframes :
            dataframes[t].rows > 0 => (t \in DOMAIN dataframes' /\ dataframes'[t].rows > 0)]_vars

\* a later batch fetched the ticker again and got nothing: the series of the first
\* batch, indicator columns included, is still the ticker's series
C28_Witness ==
    /\ mode = "graph"
    /\ toolBatches = 2
    /\ pc = "tools_loop"
    /\ callIdx > 0
    /\ calls[callIdx].name = "fetch_prices"
    /\ "AAPL" \in Elems(calls[callIdx].tickers.v)
    /\ "AAPL" \in DOMAIN dataframes
    /\ dataframes["AAPL"].rows > 0
    /\ dataframes["AAPL"].cols # {}
    /\ dfs["AAPL"] = dataframes["AAPL"]

\* C29: once the series of a ticker in the state carries an indicator column, it
\* carries that column in every later state of the run.
C29_IndicatorsPersist ==
    [][(mode = "graph") =>
          \A t \in DOMAIN dataframes : \A c \in dataframes[t].cols :
              t \in DOMAIN dataframes' /\ c \in dataframes'[t].cols]_vars

\* C30: the plan router_node returned is the plan the state holds when the route
\* is decided and when tools_node reads its tool calls.
C30_PlanCarriedByState ==
    (mode = "graph" /\ pc \in {"decide", "tools", "tools_loop"}) => plan = routerPlan

====
